---- MODULE Spec2Model ----
(***************************************************************************)
(* dbs-cli: the launch of a confidential (SEV) micro-VM by                 *)
(* CliInstance::run_vmm_server (src/src/cli_instance.rs), with the command *)
(* line of src/src/parser/args.rs as its input.                            *)
(*                                                                         *)
(* run_vmm_server is one sequential routine.  It talks to two parties:     *)
(*   - the VMM worker thread, over the pair of channels to_vmm / from_vmm  *)
(*     (one request, then a blocking receive of the response);             *)
(*   - the attestation broker, over two blocking network calls.            *)
(* Both are the environment of the routine: what they answer is chosen     *)
(* nondeterministically.  A Rust Option is a sequence of length at most 1. *)
(***************************************************************************)
EXTENDS Integers, Sequences, FiniteSets, TLC

VARIABLES
    args,                       \* DBSArgs given to run_vmm_server
    pc,                         \* position of run_vmm_server
    outcome,                    \* "Pending" | "Ok" | "Err" | "Panic"
    error,                      \* which bail!/?/unwrap/expect ended the attempt
    serial_file_exists,         \* a file exists at args.create_args.serial_path
    to_vmm,                     \* requests sent to the VMM worker, not yet taken
    from_vmm,                   \* responses of the VMM worker, not yet received
    broker_req,                 \* Option: the broker request in flight
    broker_resp,                \* Option: the broker's answer, not yet consumed
    sev_config,                 \* local: aeb::kbs::GuestPreAttestationConfig
    sev_attestation_id,         \* local (Option until bound)
    start,                      \* local (Option until bound): policy, cert, session
    vm_config,                  \* local (Option until bound): VmConfigInfo
    boot_source_config,         \* local (Option until bound): BootSourceConfig
    block_device_config_info,   \* local (Option until bound)
    msr,                        \* local (Option until bound): the SevMeasurement data
    secret,                     \* local (Option until bound)
    log                         \* history: every request submitted, every file deleted

vars == <<args, pc, outcome, error, serial_file_exists, to_vmm, from_vmm,
          broker_req, broker_resp, sev_config, sev_attestation_id, start,
          vm_config, boot_source_config, block_device_config_info, msr,
          secret, log>>

locals == <<sev_config, sev_attestation_id, start, vm_config, boot_source_config,
            block_device_config_info, msr, secret>>

channel == <<to_vmm, from_vmm>>

broker == <<broker_req, broker_resp>>

-----------------------------------------------------------------------------
(* Bounds of the environment's answers. *)
MaxLaunchId == 2

MaxSession == 2

MaxMeasurement == 2

MaxSecret == 2

(* Program constants. *)
GuestCid == 42

VpmuFeature == 0

-----------------------------------------------------------------------------
(* Option<T> *)
None == <<>>

Some(x) == <<x>>

is_none(o) == o = None

is_some(o) == o # None

unwrap(o) == o[1]

Blob(prefix, k) == prefix \o ToString(k)

-----------------------------------------------------------------------------
(* The inputs: DBSArgs as clap builds it, or as a caller constructs it. *)
KernelPaths == {None, Some(""), Some("/boot/vmlinuz")}

RootfsPaths == {None, Some(""), Some("/img/root.ext4")}

InitrdPaths == {None, Some("/boot/initrd.img")}

FirmwarePaths == {None, Some("/boot/tdshim.bin")}

SerialPaths == {None, Some("/tmp/dbs.serial")}

VsockPaths == {"", "/tmp/dbs.vsock"}

FullSecurityInfo ==
    [ guest_pre_attestation_keyset      |-> Some("KEYSET-1"),
      guest_pre_attestation_proxy       |-> Some("http://30.97.44.97:44444"),
      guest_pre_attestation_secret_guid |-> Some("e6f5a162-d67f-4750-a67c-5d065f2a9910"),
      guest_pre_attestation_secret_type |-> Some("bundle"),
      sev_cert_chain_path               |-> Some("cert_chain.cert"),
      sev_guest_policy                  |-> 0 ]

OptionalSecurityFields ==
    { "guest_pre_attestation_keyset", "guest_pre_attestation_proxy",
      "guest_pre_attestation_secret_guid", "guest_pre_attestation_secret_type",
      "sev_cert_chain_path" }

(* Option<SecurityInfoArgs>: absent, complete, or with one field None. *)
SecurityInfoArgs ==
    {None, Some(FullSecurityInfo)}
        \cup { Some([FullSecurityInfo EXCEPT ![f] = None]) : f \in OptionalSecurityFields }

DBSArgs ==
    { [ create_args |-> [ vcpu |-> 1, serial_path |-> sp, vsock |-> vs ],
        boot_args   |-> [ kernel_path |-> k, initrd_path |-> i, firmware_path |-> f,
                          boot_args |-> "console=ttyS0 tty0 reboot=k debug panic=1 pci=off root=/dev/vda1",
                          rootfs_args |-> [ rootfs |-> r, is_root |-> TRUE,
                                            is_read_only |-> FALSE ] ],
        security_info_args |-> si ] :
        sp \in SerialPaths, vs \in VsockPaths, k \in KernelPaths, i \in InitrdPaths,
        f \in FirmwarePaths, r \in RootfsPaths, si \in SecurityInfoArgs }

-----------------------------------------------------------------------------
(* What the environment answers. *)
LaunchIds == { Blob("launch-", k) : k \in 1..MaxLaunchId }

(* aeb::setup_sevguest_pre_attestation returns (launch id, start) *)
SessionStarts ==
    { [ policy |-> Blob("policy-", k), cert |-> Blob("cert-", k),
        session |-> Blob("session-", k) ] : k \in 1..MaxSession }

(* VmmData::SevMeasurement(msr) *)
SevMeasurements ==
    { [ measurement |-> Blob("measurement-", k), build |-> Blob("build-", k),
        cmdline |-> Some(Blob("cmdline-", k)), tdhob |-> Some(Blob("tdhob-", k)) ] :
        k \in 1..MaxMeasurement }

Secrets == { Blob("secret-", k) : k \in 1..MaxSecret }

(* Result<VmmData, VmmActionError> of one control-channel round trip *)
VmmOk(data) == [ ok |-> TRUE, data |-> data ]

VmmErr == [ ok |-> FALSE, data |-> [ kind |-> "VmmActionError" ] ]

VmmEmpty == [ kind |-> "Empty" ]

VmmSevMeasurement(m) == [ kind |-> "SevMeasurement", msr |-> m ]

(* the answers the VMM worker can give to a request *)
VmmResponses(req) ==
    IF req.action = "StartSevInstance"
    THEN {VmmErr, VmmOk(VmmEmpty)} \cup { VmmOk(VmmSevMeasurement(m)) : m \in SevMeasurements }
    ELSE {VmmErr, VmmOk(VmmEmpty)}

(* the answers the broker can give to a request *)
BrokerResponses(req) ==
    IF req.call = "setup_sevguest_pre_attestation"
    THEN { [ ok |-> FALSE ] }
            \cup { [ ok |-> TRUE, value |-> <<id, st>> ] : id \in LaunchIds, st \in SessionStarts }
    ELSE { [ ok |-> FALSE ] } \cup { [ ok |-> TRUE, value |-> s ] : s \in Secrets }

-----------------------------------------------------------------------------
Init ==
    /\ args \in DBSArgs
    /\ pc = "check_paths"
    /\ outcome = "Pending"
    /\ error = ""
    /\ serial_file_exists \in
          (IF is_some(args.create_args.serial_path) THEN BOOLEAN ELSE {FALSE})
    /\ to_vmm = <<>>
    /\ from_vmm = <<>>
    /\ broker_req = None
    /\ broker_resp = None
    /\ sev_config = None
    /\ sev_attestation_id = None
    /\ start = None
    /\ vm_config = None
    /\ boot_source_config = None
    /\ block_device_config_info = None
    /\ msr = None
    /\ secret = None
    /\ log = <<>>

(* the three ways a step of run_vmm_server ends *)
Goto(label) == pc' = label /\ UNCHANGED <<outcome, error>>

ReturnErr(reason) == pc' = "done" /\ outcome' = "Err" /\ error' = reason

Panic(reason) == pc' = "done" /\ outcome' = "Panic" /\ error' = reason

ReturnOk == pc' = "done" /\ outcome' = "Ok" /\ UNCHANGED error

Event(ev, arg) == [ ev |-> ev, arg |-> arg ]

Reply(to, resp) == Event("Reply", [ to |-> to, resp |-> resp ])

(* VMMComm: send the request to the worker (and signal to_vmm_fd) *)
SendRequest(action, data) ==
    /\ to_vmm' = Append(to_vmm, [ action |-> action, data |-> data ])
    /\ log' = Append(log, Event(action, data))
    /\ UNCHANGED from_vmm

(* VMMComm: the blocking receive of the worker's response *)
HasResponse == from_vmm # <<>>

TakeResponse(action) ==
    /\ from_vmm' = Tail(from_vmm)
    /\ log' = Append(log, Reply(action, Head(from_vmm)))
    /\ UNCHANGED to_vmm

(* the VMM worker thread: takes one request, answers it *)
VmmHandleRequest ==
    /\ to_vmm # <<>>
    /\ \E resp \in VmmResponses(Head(to_vmm)) :
          from_vmm' = Append(from_vmm, resp)
    /\ to_vmm' = Tail(to_vmm)
    /\ UNCHANGED <<args, pc, outcome, error, serial_file_exists, broker, locals, log>>

(* async_std::task::block_on of a broker call: issue the request ... *)
CallBroker(call, cfg, measurement) ==
    /\ broker_req' = Some([ call |-> call, config |-> cfg, measurement |-> measurement ])
    /\ log' = Append(log, Event(call, [ config |-> cfg, measurement |-> measurement ]))
    /\ UNCHANGED broker_resp

(* ... and block until it returns *)
BrokerReturned == is_some(broker_resp)

TakeBrokerResponse(call) ==
    /\ broker_req' = None
    /\ broker_resp' = None
    /\ log' = Append(log, Reply(call, unwrap(broker_resp)))

(* the attestation broker (and the network): answers the request in flight *)
BrokerAnswer ==
    /\ is_some(broker_req)
    /\ is_none(broker_resp)
    /\ \E resp \in BrokerResponses(unwrap(broker_req)) : broker_resp' = Some(resp)
    /\ UNCHANGED <<args, pc, outcome, error, serial_file_exists, channel, broker_req,
                   locals, log>>

-----------------------------------------------------------------------------
(* run_vmm_server, line by line *)

(* variant: the rootfs path is not checked *)
PathsMissing_KernelOnly(a) == is_none(a.boot_args.kernel_path)

(* l.78: the check of kernel path and rootfs path *)
PathsMissing(a) ==
    is_none(a.boot_args.kernel_path) \/ is_none(a.boot_args.rootfs_args.rootfs)

CheckPaths ==
    /\ pc = "check_paths"
    /\ IF PathsMissing(args)
       THEN ReturnErr("kernel path or rootfs path cannot be None when creating the VM")
       ELSE Goto("security_info")
    /\ UNCHANGED <<args, serial_file_exists, channel, broker, locals, log>>

(* GuestPreAttestationConfig { .. Default::default() } *)
DefaultGuestPreAttestationConfig ==
    [ proxy |-> "", cert_chain_path |-> "", policy |-> 0, keyset |-> "",
      launch_id |-> "", firmware |-> None, kernel |-> None, initrd |-> None,
      cmdline |-> None, tdhob |-> None, key_broker_secret_guid |-> "",
      key_broker_secret_type |-> "", num_vcpu |-> 0, confidential_vm_type |-> "" ]

(* l.83-89: security_info and the pre-attestation config *)
BuildSevConfig ==
    /\ pc = "security_info"
    /\ IF is_none(args.security_info_args)
       THEN Panic("security_info_args.unwrap()") /\ UNCHANGED sev_config
       ELSE LET security_info == unwrap(args.security_info_args) IN
            IF is_none(security_info.guest_pre_attestation_proxy)
            THEN Panic("guest_pre_attestation_proxy.unwrap()") /\ UNCHANGED sev_config
            ELSE IF is_none(security_info.sev_cert_chain_path)
            THEN Panic("sev_cert_chain_path.unwrap()") /\ UNCHANGED sev_config
            ELSE /\ sev_config' = Some(
                      [ DefaultGuestPreAttestationConfig EXCEPT
                          !.proxy = unwrap(security_info.guest_pre_attestation_proxy),
                          !.cert_chain_path = unwrap(security_info.sev_cert_chain_path),
                          !.policy = security_info.sev_guest_policy ])
                 /\ Goto("setup_pre_attestation")
    /\ UNCHANGED <<args, serial_file_exists, channel, broker, sev_attestation_id, start,
                   vm_config, boot_source_config, block_device_config_info, msr, secret,
                   log>>

(* l.93-94: the pre-attestation request is sent to the broker *)
SetupSevguestPreAttestation ==
    /\ pc = "setup_pre_attestation"
    /\ CallBroker("setup_sevguest_pre_attestation", unwrap(sev_config), None)
    /\ Goto("setup_pre_attestation_wait")
    /\ UNCHANGED <<args, serial_file_exists, channel, locals>>

(* variant: unwrap_or_default() instead of ? on the pre-attestation *)
SetupSevguestPreAttestationReturn_ErrorIgnored ==
    /\ pc = "setup_pre_attestation_wait"
    /\ BrokerReturned
    /\ TakeBrokerResponse("setup_sevguest_pre_attestation")
    /\ LET resp == unwrap(broker_resp) IN
       IF resp.ok
       THEN /\ sev_attestation_id' = Some(resp.value[1])
            /\ start' = Some(resp.value[2])
       ELSE /\ sev_attestation_id' = Some("")
            /\ start' = Some([ policy |-> "", cert |-> "", session |-> "" ])
    /\ Goto("vm_config")
    /\ UNCHANGED <<args, serial_file_exists, channel, sev_config, vm_config,
                   boot_source_config, block_device_config_info, msr, secret>>

(* l.93-95: its result, with the ? operator *)
SetupSevguestPreAttestationReturn ==
    /\ pc = "setup_pre_attestation_wait"
    /\ BrokerReturned
    /\ TakeBrokerResponse("setup_sevguest_pre_attestation")
    /\ LET resp == unwrap(broker_resp) IN
       IF resp.ok
       THEN /\ sev_attestation_id' = Some(resp.value[1])
            /\ start' = Some(resp.value[2])
            /\ Goto("vm_config")
       ELSE /\ ReturnErr("setup_sevguest_pre_attestation")
            /\ UNCHANGED <<sev_attestation_id, start>>
    /\ UNCHANGED <<args, serial_file_exists, channel, sev_config, vm_config,
                   boot_source_config, block_device_config_info, msr, secret>>

(* variant: sev_start is built without the secure channel of the session *)
VmConfigInfo_NoSecureChannel(a, st) ==
    [ vcpu_count  |-> a.create_args.vcpu,
      vpmu_feature |-> VpmuFeature,
      serial_path |-> a.create_args.serial_path,
      sev_start   |-> [ enabled |-> TRUE, policy |-> st.policy,
                        secure_channel |-> None ] ]

(* l.100-126: VmConfigInfo, with the session start in sev_start *)
VmConfigInfo(a, st) ==
    [ vcpu_count  |-> a.create_args.vcpu,
      vpmu_feature |-> VpmuFeature,
      serial_path |-> a.create_args.serial_path,
      sev_start   |-> [ enabled |-> TRUE, policy |-> st.policy,
                        secure_channel |-> Some([ cert |-> st.cert,
                                                  session |-> st.session ]) ] ]

BuildVmConfig ==
    /\ pc = "vm_config"
    /\ vm_config' = Some(VmConfigInfo(args, unwrap(start)))
    /\ Goto("serial_path")
    /\ UNCHANGED <<args, serial_file_exists, channel, broker, sev_config,
                   sev_attestation_id, start, boot_source_config,
                   block_device_config_info, msr, secret, log>>

(* l.128-134: an existing serial file is removed; remove_file(..).unwrap() *)
RemoveSerialFile ==
    /\ pc = "serial_path"
    /\ IF is_some(args.create_args.serial_path) /\ serial_file_exists
       THEN \/ /\ serial_file_exists' = FALSE
               /\ log' = Append(log, Event("remove_file", unwrap(args.create_args.serial_path)))
               /\ Goto("boot_source")
            \/ /\ Panic("remove_file(serial_path).unwrap()")
               /\ log' = Append(log, Event("remove_file_failed",
                                           unwrap(args.create_args.serial_path)))
               /\ UNCHANGED serial_file_exists
       ELSE Goto("boot_source") /\ UNCHANGED <<serial_file_exists, log>>
    /\ UNCHANGED <<args, channel, broker, locals>>

(* l.136-143 *)
BootSourceConfig(a) ==
    [ kernel_path   |-> unwrap(a.boot_args.kernel_path),
      initrd_path   |-> a.boot_args.initrd_path,
      firmware_path |-> a.boot_args.firmware_path,
      boot_args     |-> Some(a.boot_args.boot_args) ]

(* l.145-154 *)
BlockDeviceConfigInfo(a) ==
    [ drive_id       |-> "rootfs",
      path_on_host   |-> unwrap(a.boot_args.rootfs_args.rootfs),
      is_root_device |-> a.boot_args.rootfs_args.is_root,
      is_read_only   |-> a.boot_args.rootfs_args.is_read_only ]

BuildBootSource ==
    /\ pc = "boot_source"
    /\ IF is_none(args.boot_args.kernel_path)
       THEN /\ Panic("kernel_path.clone().unwrap()")
            /\ UNCHANGED <<boot_source_config, block_device_config_info>>
       ELSE IF is_none(args.boot_args.rootfs_args.rootfs)
       THEN /\ Panic("rootfs.unwrap()")
            /\ UNCHANGED <<boot_source_config, block_device_config_info>>
       ELSE /\ boot_source_config' = Some(BootSourceConfig(args))
            /\ block_device_config_info' = Some(BlockDeviceConfigInfo(args))
            /\ Goto("set_vm_configuration")
    /\ UNCHANGED <<args, serial_file_exists, channel, broker, sev_config,
                   sev_attestation_id, start, vm_config, msr, secret, log>>

(* variant: the request is sent and the routine goes on without the receive *)
SetVmConfiguration_NoWait ==
    /\ pc = "set_vm_configuration"
    /\ SendRequest("SetVmConfig", unwrap(vm_config))
    /\ Goto("put_boot_source")
    /\ UNCHANGED <<args, serial_file_exists, broker, locals>>

(* l.156-158: set vm configuration; .expect *)
SetVmConfiguration ==
    /\ pc = "set_vm_configuration"
    /\ SendRequest("SetVmConfig", unwrap(vm_config))
    /\ Goto("set_vm_configuration_wait")
    /\ UNCHANGED <<args, serial_file_exists, broker, locals>>

(* variant: the receive gives up when no response has arrived *)
SetVmConfigurationDone_Timeout ==
    /\ pc = "set_vm_configuration_wait"
    /\ IF HasResponse
       THEN /\ TakeResponse("SetVmConfig")
            /\ IF Head(from_vmm).ok
               THEN Goto("put_boot_source")
               ELSE Panic("failed to set vm configuration")
       ELSE /\ Panic("failed to set vm configuration")
            /\ log' = Append(log, Event("timeout", "SetVmConfig"))
            /\ UNCHANGED channel
    /\ UNCHANGED <<args, serial_file_exists, broker, locals>>

SetVmConfigurationDone ==
    /\ pc = "set_vm_configuration_wait"
    /\ HasResponse
    /\ TakeResponse("SetVmConfig")
    /\ IF Head(from_vmm).ok
       THEN Goto("put_boot_source")
       ELSE Panic("failed to set vm configuration")
    /\ UNCHANGED <<args, serial_file_exists, broker, locals>>

(* l.160-162: set boot source config; .expect *)
PutBootSource ==
    /\ pc = "put_boot_source"
    /\ SendRequest("SetBootSource", unwrap(boot_source_config))
    /\ Goto("put_boot_source_wait")
    /\ UNCHANGED <<args, serial_file_exists, broker, locals>>

(* variant: the result of put_boot_source is dropped instead of .expect *)
PutBootSourceDone_Unchecked ==
    /\ pc = "put_boot_source_wait"
    /\ HasResponse
    /\ TakeResponse("SetBootSource")
    /\ Goto("insert_block_device")
    /\ UNCHANGED <<args, serial_file_exists, broker, locals>>

PutBootSourceDone ==
    /\ pc = "put_boot_source_wait"
    /\ HasResponse
    /\ TakeResponse("SetBootSource")
    /\ IF Head(from_vmm).ok
       THEN Goto("insert_block_device")
       ELSE Panic("failed to set boot source")
    /\ UNCHANGED <<args, serial_file_exists, broker, locals>>

(* l.164-166: set rootfs; .expect *)
InsertBlockDevice ==
    /\ pc = "insert_block_device"
    /\ SendRequest("InsertBlockDevice", unwrap(block_device_config_info))
    /\ Goto("insert_block_device_wait")
    /\ UNCHANGED <<args, serial_file_exists, broker, locals>>

(* variant: the negation of the test is lost *)
HasVsock_Inverted(a) == a.create_args.vsock = ""

(* l.168: if !args.create_args.vsock.is_empty() *)
HasVsock(a) == a.create_args.vsock # ""

InsertBlockDeviceDone ==
    /\ pc = "insert_block_device_wait"
    /\ HasResponse
    /\ TakeResponse("InsertBlockDevice")
    /\ IF Head(from_vmm).ok
       THEN IF HasVsock(args) THEN Goto("insert_vsock") ELSE Goto("instance_start_sev")
       ELSE Panic("failed to set block device")
    /\ UNCHANGED <<args, serial_file_exists, broker, locals>>

(* l.169-175 *)
VsockDeviceConfigInfo(a) ==
    [ guest_cid |-> GuestCid, uds_path |-> Some(a.create_args.vsock) ]

(* l.177-179: set vsock; .expect *)
InsertVsock ==
    /\ pc = "insert_vsock"
    /\ SendRequest("InsertVsock", VsockDeviceConfigInfo(args))
    /\ Goto("insert_vsock_wait")
    /\ UNCHANGED <<args, serial_file_exists, broker, locals>>

InsertVsockDone ==
    /\ pc = "insert_vsock_wait"
    /\ HasResponse
    /\ TakeResponse("InsertVsock")
    /\ IF Head(from_vmm).ok
       THEN Goto("instance_start_sev")
       ELSE Panic("failed to set vsock socket path")
    /\ UNCHANGED <<args, serial_file_exists, broker, locals>>

(* l.182-183: start sev micro-vm; the call has no argument *)
InstanceStartSev ==
    /\ pc = "instance_start_sev"
    /\ SendRequest("StartSevInstance", None)
    /\ Goto("instance_start_sev_wait")
    /\ UNCHANGED <<args, serial_file_exists, broker, locals>>

(* variant: a failed start is sent again *)
InstanceStartSevDone_Retry ==
    /\ pc = "instance_start_sev_wait"
    /\ HasResponse
    /\ TakeResponse("StartSevInstance")
    /\ LET response == Head(from_vmm) IN
       IF ~response.ok
       THEN Goto("instance_start_sev") /\ UNCHANGED msr
       ELSE IF response.data.kind = "SevMeasurement"
       THEN msr' = Some(response.data.msr) /\ Goto("secret_request")
       ELSE Panic("panic!()") /\ UNCHANGED msr
    /\ UNCHANGED <<args, serial_file_exists, broker, sev_config, sev_attestation_id,
                   start, vm_config, boot_source_config, block_device_config_info,
                   secret>>

(* l.183-184: .unwrap(), then let VmmData::SevMeasurement(msr) = .. else panic *)
InstanceStartSevDone ==
    /\ pc = "instance_start_sev_wait"
    /\ HasResponse
    /\ TakeResponse("StartSevInstance")
    /\ LET response == Head(from_vmm) IN
       IF ~response.ok
       THEN Panic("instance_start_sev().unwrap()") /\ UNCHANGED msr
       ELSE IF response.data.kind = "SevMeasurement"
       THEN msr' = Some(response.data.msr) /\ Goto("secret_request")
       ELSE Panic("panic!()") /\ UNCHANGED msr
    /\ UNCHANGED <<args, serial_file_exists, broker, sev_config, sev_attestation_id,
                   start, vm_config, boot_source_config, block_device_config_info,
                   secret>>

(* variant: the command line of the caller is sent, not the one measured *)
SecretRequestConfig_CallerCmdline(cfg, a, security_info, id, m) ==
    [ cfg EXCEPT
        !.keyset = unwrap(security_info.guest_pre_attestation_keyset),
        !.launch_id = id,
        !.firmware = a.boot_args.firmware_path,
        !.kernel = a.boot_args.kernel_path,
        !.initrd = a.boot_args.initrd_path,
        !.cmdline = Some(a.boot_args.boot_args),
        !.tdhob = m.tdhob,
        !.key_broker_secret_guid = unwrap(security_info.guest_pre_attestation_secret_guid),
        !.key_broker_secret_type = unwrap(security_info.guest_pre_attestation_secret_type),
        !.num_vcpu = a.create_args.vcpu,
        !.confidential_vm_type = "sev" ]

(* variant: launch_id is left at its default *)
SecretRequestConfig_NoLaunchId(cfg, a, security_info, id, m) ==
    [ cfg EXCEPT
        !.keyset = unwrap(security_info.guest_pre_attestation_keyset),
        !.firmware = a.boot_args.firmware_path,
        !.kernel = a.boot_args.kernel_path,
        !.initrd = a.boot_args.initrd_path,
        !.cmdline = m.cmdline,
        !.tdhob = m.tdhob,
        !.key_broker_secret_guid = unwrap(security_info.guest_pre_attestation_secret_guid),
        !.key_broker_secret_type = unwrap(security_info.guest_pre_attestation_secret_type),
        !.num_vcpu = a.create_args.vcpu,
        !.confidential_vm_type = "sev" ]

(* l.191-205: the pre-attestation config becomes the secret request *)
SecretRequestConfig(cfg, a, security_info, id, m) ==
    [ cfg EXCEPT
        !.keyset = unwrap(security_info.guest_pre_attestation_keyset),
        !.launch_id = id,
        !.firmware = a.boot_args.firmware_path,
        !.kernel = a.boot_args.kernel_path,
        !.initrd = a.boot_args.initrd_path,
        !.cmdline = m.cmdline,
        !.tdhob = m.tdhob,
        !.key_broker_secret_guid = unwrap(security_info.guest_pre_attestation_secret_guid),
        !.key_broker_secret_type = unwrap(security_info.guest_pre_attestation_secret_type),
        !.num_vcpu = a.create_args.vcpu,
        !.confidential_vm_type = "sev" ]

BuildSecretRequest ==
    /\ pc = "secret_request"
    /\ LET security_info == unwrap(args.security_info_args) IN
       IF is_none(security_info.guest_pre_attestation_keyset)
       THEN Panic("guest_pre_attestation_keyset.unwrap()") /\ UNCHANGED sev_config
       ELSE IF is_none(security_info.guest_pre_attestation_secret_guid)
       THEN Panic("guest_pre_attestation_secret_guid.unwrap()") /\ UNCHANGED sev_config
       ELSE IF is_none(security_info.guest_pre_attestation_secret_type)
       THEN Panic("guest_pre_attestation_secret_type.unwrap()") /\ UNCHANGED sev_config
       ELSE /\ sev_config' = Some(SecretRequestConfig(unwrap(sev_config), args,
                                     security_info, unwrap(sev_attestation_id),
                                     unwrap(msr)))
            /\ Goto("sev_guest_pre_attestation")
    /\ UNCHANGED <<args, serial_file_exists, channel, broker, sev_attestation_id, start,
                   vm_config, boot_source_config, block_device_config_info, msr, secret,
                   log>>

(* variant: the build id of the response is passed as the measurement *)
SevGuestPreAttestation_BuildAsMeasurement ==
    /\ pc = "sev_guest_pre_attestation"
    /\ CallBroker("sev_guest_pre_attestation", unwrap(sev_config),
                  Some(unwrap(msr).build))
    /\ Goto("sev_guest_pre_attestation_wait")
    /\ UNCHANGED <<args, serial_file_exists, channel, locals>>

(* l.186, l.207-208: the secret-exchange request, with the measurement *)
SevGuestPreAttestation ==
    /\ pc = "sev_guest_pre_attestation"
    /\ CallBroker("sev_guest_pre_attestation", unwrap(sev_config),
                  Some(unwrap(msr).measurement))
    /\ Goto("sev_guest_pre_attestation_wait")
    /\ UNCHANGED <<args, serial_file_exists, channel, locals>>

(* variant: unwrap_or_default() instead of ? on the secret exchange *)
SevGuestPreAttestationReturn_ErrorIgnored ==
    /\ pc = "sev_guest_pre_attestation_wait"
    /\ BrokerReturned
    /\ TakeBrokerResponse("sev_guest_pre_attestation")
    /\ LET resp == unwrap(broker_resp) IN
       /\ secret' = Some(IF resp.ok THEN resp.value ELSE "")
       /\ Goto("inject_sev_secrets")
    /\ UNCHANGED <<args, serial_file_exists, channel, sev_config, sev_attestation_id,
                   start, vm_config, boot_source_config, block_device_config_info, msr>>

(* l.207-209: its result, with the ? operator *)
SevGuestPreAttestationReturn ==
    /\ pc = "sev_guest_pre_attestation_wait"
    /\ BrokerReturned
    /\ TakeBrokerResponse("sev_guest_pre_attestation")
    /\ LET resp == unwrap(broker_resp) IN
       IF resp.ok
       THEN secret' = Some(resp.value) /\ Goto("inject_sev_secrets")
       ELSE ReturnErr("sev_guest_pre_attestation") /\ UNCHANGED secret
    /\ UNCHANGED <<args, serial_file_exists, channel, sev_config, sev_attestation_id,
                   start, vm_config, boot_source_config, block_device_config_info, msr>>

(* l.213-216 *)
SevSecretsInjection(s) ==
    [ secrets |-> << [ secret |-> s, gpa |-> None ] >>, resume_vm |-> TRUE ]

(* l.213-217: inject, .unwrap() *)
InjectSevSecrets ==
    /\ pc = "inject_sev_secrets"
    /\ SendRequest("InjectSecrets", SevSecretsInjection(unwrap(secret)))
    /\ Goto("inject_sev_secrets_wait")
    /\ UNCHANGED <<args, serial_file_exists, broker, locals>>

(* variant: the result of the inject is dropped instead of .unwrap() *)
InjectSevSecretsDone_Unchecked ==
    /\ pc = "inject_sev_secrets_wait"
    /\ HasResponse
    /\ TakeResponse("InjectSecrets")
    /\ ReturnOk
    /\ UNCHANGED <<args, serial_file_exists, broker, locals>>

(* l.217-219: .unwrap(), then Ok(()) *)
InjectSevSecretsDone ==
    /\ pc = "inject_sev_secrets_wait"
    /\ HasResponse
    /\ TakeResponse("InjectSecrets")
    /\ IF Head(from_vmm).ok
       THEN ReturnOk
       ELSE Panic("inejct_sev_secrets().unwrap()")
    /\ UNCHANGED <<args, serial_file_exists, broker, locals>>

-----------------------------------------------------------------------------
Next ==
    \/ CheckPaths
    \/ BuildSevConfig
    \/ SetupSevguestPreAttestation
    \/ SetupSevguestPreAttestationReturn
    \/ BuildVmConfig
    \/ RemoveSerialFile
    \/ BuildBootSource
    \/ SetVmConfiguration
    \/ SetVmConfigurationDone
    \/ PutBootSource
    \/ PutBootSourceDone
    \/ InsertBlockDevice
    \/ InsertBlockDeviceDone
    \/ InsertVsock
    \/ InsertVsockDone
    \/ InstanceStartSev
    \/ InstanceStartSevDone
    \/ BuildSecretRequest
    \/ SevGuestPreAttestation
    \/ SevGuestPreAttestationReturn
    \/ InjectSevSecrets
    \/ InjectSevSecretsDone
    \/ VmmHandleRequest
    \/ BrokerAnswer

Spec == Init /\ [][Next]_vars

(* the steps of the thread that runs run_vmm_server *)
RunVmmServer ==
    \/ CheckPaths
    \/ BuildSevConfig
    \/ SetupSevguestPreAttestation
    \/ SetupSevguestPreAttestationReturn
    \/ BuildVmConfig
    \/ RemoveSerialFile
    \/ BuildBootSource
    \/ SetVmConfiguration
    \/ SetVmConfigurationDone
    \/ PutBootSource
    \/ PutBootSourceDone
    \/ InsertBlockDevice
    \/ InsertBlockDeviceDone
    \/ InsertVsock
    \/ InsertVsockDone
    \/ InstanceStartSev
    \/ InstanceStartSevDone
    \/ BuildSecretRequest
    \/ SevGuestPreAttestation
    \/ SevGuestPreAttestationReturn
    \/ InjectSevSecrets
    \/ InjectSevSecretsDone

(* The thread of run_vmm_server keeps running while it is not blocked; the
   worker answers every request it was sent; every broker call returns. *)
FairSpec ==
    /\ Spec
    /\ WF_vars(RunVmmServer)
    /\ WF_vars(VmmHandleRequest)
    /\ WF_vars(BrokerAnswer)

-----------------------------------------------------------------------------
(* Reading the history. *)
Indices(ev) == { i \in DOMAIN log : log[i].ev = ev }

Submitted(ev) == Indices(ev) # {}

ReplyIndices(to) == { i \in DOMAIN log : log[i].ev = "Reply" /\ log[i].arg.to = to }

OkReplyIndices(to) == { i \in ReplyIndices(to) : log[i].arg.resp.ok }

FailedReplyIndices(to) == { i \in ReplyIndices(to) : ~log[i].arg.resp.ok }

ConfigActions == <<"SetVmConfig", "SetBootSource", "InsertBlockDevice", "InsertVsock">>

ControlActions ==
    {"SetVmConfig", "SetBootSource", "InsertBlockDevice", "InsertVsock",
     "StartSevInstance", "InjectSecrets"}

BrokerCalls == {"setup_sevguest_pre_attestation", "sev_guest_pre_attestation"}

IsRequest(e) == e.ev \in ControlActions \cup BrokerCalls

ConfigSubmitted == \E k \in DOMAIN ConfigActions : Submitted(ConfigActions[k])

(* the replies to StartSevInstance that carry a measurement *)
MeasurementIndices ==
    { i \in OkReplyIndices("StartSevInstance") :
        log[i].arg.resp.data.kind = "SevMeasurement" }

-----------------------------------------------------------------------------
(* C1: InjectSecrets is submitted only after the secret-exchange request of
   the attempt has returned successfully; when the secret-exchange request
   fails the attempt has ended in an error and InjectSecrets is not in the
   history, in that state and in every later one. *)
C1_InjectOnlyAfterSecret ==
    /\ \A i \in Indices("InjectSecrets") :
          \E j \in OkReplyIndices("sev_guest_pre_attestation") : j < i
    /\ FailedReplyIndices("sev_guest_pre_attestation") # {} =>
          /\ pc = "done"
          /\ outcome = "Err"
          /\ ~Submitted("InjectSecrets")

C1_Witness ==
    /\ FailedReplyIndices("sev_guest_pre_attestation") # {}
    /\ pc = "done"

(* C2: the secret-exchange request is issued only after a start response with
   a measurement, and carries exactly that measurement; the secret given to
   inject is exactly the one the secret-exchange request returned. *)
C2_StartThenVerifyThenSecret ==
    /\ \A i \in Indices("sev_guest_pre_attestation") :
          \E j \in MeasurementIndices :
             /\ j < i
             /\ log[i].arg.measurement = Some(log[j].arg.resp.data.msr.measurement)
    /\ \A i \in Indices("InjectSecrets") :
          \E j \in OkReplyIndices("sev_guest_pre_attestation") :
             /\ j < i
             /\ Len(log[i].arg.secrets) = 1
             /\ log[i].arg.secrets[1].secret = log[j].arg.resp.value

C2_Witness == Submitted("InjectSecrets")

PathsMissingInput ==
    is_none(args.boot_args.kernel_path) \/ is_none(args.boot_args.rootfs_args.rootfs)

(* C3: when the kernel path or the rootfs path is absent, the launch returns
   the precondition error and nothing has happened: no broker request, no
   file deleted, no action submitted to the VMM. *)
C3_MissingPathNoSideEffect ==
    PathsMissingInput =>
        /\ log = <<>>
        /\ to_vmm = <<>>
        /\ is_none(broker_req)
        /\ pc \in {"check_paths", "done"}
        /\ pc = "done" =>
              /\ outcome = "Err"
              /\ error = "kernel path or rootfs path cannot be None when creating the VM"

C3_Witness == PathsMissingInput /\ pc = "done"

(* C4: whenever a configuration action has been submitted, the kernel path
   and the root device host path are present and non-empty; an input whose
   kernel path or rootfs path is the empty string never gets a configuration
   action submitted. *)
EmptyPathInput ==
    \/ args.boot_args.kernel_path = Some("")
    \/ args.boot_args.rootfs_args.rootfs = Some("")

C4_PathsNonEmptyWhenConfigured ==
    /\ ConfigSubmitted =>
          /\ is_some(args.boot_args.kernel_path)
          /\ unwrap(args.boot_args.kernel_path) # ""
          /\ is_some(args.boot_args.rootfs_args.rootfs)
          /\ unwrap(args.boot_args.rootfs_args.rootfs) # ""
    /\ EmptyPathInput => ~ConfigSubmitted

(* C5: the configuration actions and the start action are submitted in the
   order SetVmConfig, SetBootSource, InsertBlockDevice, InsertVsock (when a
   vsock path is given), StartSevInstance; each of them only after the one
   before it was accepted. *)
OrderedActions ==
    <<"SetVmConfig", "SetBootSource", "InsertBlockDevice", "InsertVsock",
      "StartSevInstance">>

Rank(ev) == CHOOSE k \in DOMAIN OrderedActions : OrderedActions[k] = ev

OrderedIndices ==
    { i \in DOMAIN log : \E k \in DOMAIN OrderedActions : log[i].ev = OrderedActions[k] }

MaxOf(S) == CHOOSE x \in S : \A y \in S : y <= x

C5_ConfigurationOrder ==
    \A i \in OrderedIndices :
        LET earlier == { p \in OrderedIndices : p < i } IN
        IF earlier = {}
        THEN log[i].ev = "SetVmConfig"
        ELSE LET p == MaxOf(earlier) IN
             /\ \/ Rank(log[i].ev) = Rank(log[p].ev) + 1
                \/ /\ log[p].ev = "InsertBlockDevice"
                   /\ log[i].ev = "StartSevInstance"
                   /\ args.create_args.vsock = ""
             /\ \E j \in OkReplyIndices(log[p].ev) : p < j /\ j < i

C5_Witness == Submitted("InsertVsock") /\ Submitted("StartSevInstance")

(* C6: when a configuration submission is rejected, the attempt has ended in
   an error returned to the caller and nothing is submitted after the
   rejection. *)
C6_ConfigRejectedIsFailed ==
    \A k \in DOMAIN ConfigActions :
        \A j \in FailedReplyIndices(ConfigActions[k]) :
            /\ outcome = "Err"
            /\ j = Len(log)

(* C7: when the response to the start action is not the measurement variant,
   the attempt has ended in an error returned to the caller, and neither a
   secret-exchange request nor InjectSecrets is issued. *)
C7_UnexpectedStartIsFailed ==
    \A j \in ReplyIndices("StartSevInstance") \ MeasurementIndices :
        /\ outcome = "Err"
        /\ ~Submitted("sev_guest_pre_attestation")
        /\ ~Submitted("InjectSecrets")

(* C8: every secret-exchange request comes after a successful
   pre-attestation request and carries the transaction id it returned; when
   the pre-attestation failed, the attempt has ended in an error and no
   secret-exchange request is issued. *)
C8_TwoPhaseExchange ==
    /\ \A i \in Indices("sev_guest_pre_attestation") :
          \E j \in OkReplyIndices("setup_sevguest_pre_attestation") :
             /\ j < i
             /\ log[i].arg.config.launch_id = log[j].arg.resp.value[1]
    /\ FailedReplyIndices("setup_sevguest_pre_attestation") # {} =>
          /\ pc = "done"
          /\ outcome = "Err"
          /\ ~Submitted("sev_guest_pre_attestation")

C8_Witness == Submitted("sev_guest_pre_attestation")

(* C9 as stated: the start request carries the session's pre-boot payload
   (policy, certificate, session blob). *)
C9_StartCarriesPayload ==
    \A i \in Indices("StartSevInstance") :
        /\ is_some(log[i].arg)
        /\ is_some(start)
        /\ unwrap(log[i].arg) = unwrap(start)

(* C9 as amended: the session's pre-boot payload returned by the
   pre-attestation is delivered in the SetVmConfig action (its sev_start);
   the start request carries nothing and is submitted only after SetVmConfig
   was accepted. *)
C9_PayloadInVmConfig ==
    /\ \A i \in Indices("SetVmConfig") :
          \E j \in OkReplyIndices("setup_sevguest_pre_attestation") :
             /\ j < i
             /\ log[i].arg.sev_start =
                   [ enabled |-> TRUE,
                     policy |-> log[j].arg.resp.value[2].policy,
                     secure_channel |-> Some([ cert |-> log[j].arg.resp.value[2].cert,
                                               session |-> log[j].arg.resp.value[2].session ]) ]
    /\ \A i \in Indices("StartSevInstance") :
          /\ is_none(log[i].arg)
          /\ \E c \in Indices("SetVmConfig") :
                \E j \in OkReplyIndices("SetVmConfig") : c < j /\ j < i

C9_Witness == Submitted("StartSevInstance")

(* C10: every control-channel action and every broker request is issued at
   most once, at most one measurement is received, and once the attempt has
   ended (in success, an error or a panic) nothing more happens. *)
AtMostOnce ==
    /\ \A ev \in ControlActions \cup BrokerCalls : Cardinality(Indices(ev)) <= 1
    /\ Cardinality(MeasurementIndices) <= 1
    /\ outcome = "Ok" => Cardinality(MeasurementIndices) = 1

C10_NoRetry ==
    /\ [](AtMostOnce)
    /\ [][outcome # "Pending" => UNCHANGED vars]_vars

C10_Witness ==
    /\ FailedReplyIndices("StartSevInstance") # {}
    /\ pc = "done"

(* C11: no failure of the launch aborts the process: the attempt never ends
   in a panic, every failure is an error value returned to the caller. *)
C11_NoPanic == outcome # "Panic"

(* C12: the attempt returns success only after InjectSecrets, submitted with
   the resume flag set, was confirmed by the VMM; a rejected inject never
   yields success; and success is never reached without the configuration,
   the start with its measurement, the pre-attestation and the secret
   exchange having succeeded. *)
C12_RunningOnlyAfterInject ==
    /\ outcome = "Ok" =>
          /\ \E i \in Indices("InjectSecrets") :
                /\ log[i].arg.resume_vm = TRUE
                /\ \E j \in OkReplyIndices("InjectSecrets") : i < j /\ j = Len(log)
          /\ OkReplyIndices("SetVmConfig") # {}
          /\ OkReplyIndices("SetBootSource") # {}
          /\ OkReplyIndices("InsertBlockDevice") # {}
          /\ args.create_args.vsock # "" => OkReplyIndices("InsertVsock") # {}
          /\ MeasurementIndices # {}
          /\ OkReplyIndices("setup_sevguest_pre_attestation") # {}
          /\ OkReplyIndices("sev_guest_pre_attestation") # {}
    /\ FailedReplyIndices("InjectSecrets") # {} => outcome # "Ok"
    /\ \A ev \in ControlActions \cup BrokerCalls :
          FailedReplyIndices(ev) # {} => outcome # "Ok"

C12_Witness == outcome = "Ok"

(* C13: when a file exists at the configured serial path it is deleted
   before any configuration action is submitted; when the deletion fails, an
   error is returned to the caller and no configuration action is
   submitted. *)
C13_SerialFileDeletedFirst ==
    /\ \A k \in DOMAIN ConfigActions :
          \A i \in Indices(ConfigActions[k]) :
             /\ ~serial_file_exists
             /\ \A d \in Indices("remove_file") : d < i
    /\ Submitted("remove_file_failed") =>
          /\ outcome = "Err"
          /\ ~ConfigSubmitted

(* C15: at most one request of the attempt is in flight at any moment, over
   the control channel and to the broker together; a request is only sent
   by a step of run_vmm_server, and only when nothing is in flight; a
   response is only put on from_vmm by the worker, in answer to a request
   it took. *)
InFlight ==
    Len(to_vmm) + Len(from_vmm) + (IF is_some(broker_req) THEN 1 ELSE 0)

C15_OneRequestInFlight ==
    /\ [](InFlight <= 1)
    /\ [][Len(to_vmm') > Len(to_vmm) => (InFlight = 0 /\ pc' # pc)]_vars
    /\ [][(is_none(broker_req) /\ is_some(broker_req')) =>
             (InFlight = 0 /\ pc' # pc)]_vars
    /\ [][Len(from_vmm') > Len(from_vmm) =>
             (pc' = pc /\ log' = log /\ Len(to_vmm') < Len(to_vmm))]_vars

C15_Witness ==
    /\ to_vmm # <<>>
    /\ Head(to_vmm).action = "SetBootSource"
    /\ OkReplyIndices("SetVmConfig") # {}

(* C16: a receive on the control channel has no timeout: while the worker
   has not answered the action submitted, run_vmm_server takes no step (no
   further submission, no end of the attempt); and when the worker answers
   every action and every broker call returns, the attempt eventually ends,
   in success or in a failure. *)
WaitingForWorker ==
    /\ pc \in { "set_vm_configuration_wait", "put_boot_source_wait",
                "insert_block_device_wait", "insert_vsock_wait",
                "instance_start_sev_wait", "inject_sev_secrets_wait" }
    /\ from_vmm = <<>>

C16_StallsOrTerminates ==
    /\ [][WaitingForWorker => (pc' = pc /\ outcome' = outcome /\ log' = log)]_vars
    /\ <>(pc = "done")

C16_Witness == WaitingForWorker /\ to_vmm # <<>> /\ Submitted("StartSevInstance")

(* C17: when the pre-attestation request fails, the launch returns that
   error and nothing else has happened: no action was submitted to the VMM
   and the serial file was not deleted.  The pre-attestation request is the
   first entry of the history. *)
C17_PreAttestationFailureLeavesVmUntouched ==
    /\ log # <<>> => log[1].ev = "setup_sevguest_pre_attestation"
    /\ FailedReplyIndices("setup_sevguest_pre_attestation") # {} =>
          /\ pc = "done"
          /\ outcome = "Err"
          /\ error = "setup_sevguest_pre_attestation"
          /\ \A ev \in ControlActions : ~Submitted(ev)
          /\ ~Submitted("remove_file")
          /\ ~Submitted("remove_file_failed")
          /\ to_vmm = <<>>
          /\ Len(log) = 2

C17_Witness ==
    /\ FailedReplyIndices("setup_sevguest_pre_attestation") # {}
    /\ serial_file_exists

(* C18: once the block device is accepted, the next submission is InsertVsock
   when the vsock path is non-empty and StartSevInstance when it is empty;
   InsertVsock is never submitted with an empty path, is submitted at most
   once, carries the path, and comes after the accepted block device and
   before the start. *)
NextEventAfter(i) == log[i + 1].ev

C18_VsockIffConfigured ==
    /\ \A j \in OkReplyIndices("InsertBlockDevice") :
          j < Len(log) =>
             NextEventAfter(j) =
                (IF args.create_args.vsock # "" THEN "InsertVsock" ELSE "StartSevInstance")
    /\ Cardinality(Indices("InsertVsock")) <= 1
    /\ \A i \in Indices("InsertVsock") :
          /\ args.create_args.vsock # ""
          /\ log[i].arg.uds_path = Some(args.create_args.vsock)
          /\ \E j \in OkReplyIndices("InsertBlockDevice") : j < i
          /\ \A t \in Indices("StartSevInstance") : i < t
    /\ \A t \in Indices("StartSevInstance") :
          args.create_args.vsock # "" => \E i \in OkReplyIndices("InsertVsock") : i < t

C18_Witness == args.create_args.vsock = "" /\ Submitted("StartSevInstance")

(* C19: the firmware, kernel and initrd paths of the secret-exchange request
   are the ones submitted in the boot-source configuration of the attempt;
   its command line and firmware hand-off block are the ones of the start
   response. *)
C19_AttestedIsBooted ==
    \A i \in Indices("sev_guest_pre_attestation") :
        /\ \E b \in Indices("SetBootSource") :
              /\ b < i
              /\ log[i].arg.config.firmware = log[b].arg.firmware_path
              /\ log[i].arg.config.kernel = Some(log[b].arg.kernel_path)
              /\ log[i].arg.config.initrd = log[b].arg.initrd_path
        /\ \E j \in MeasurementIndices :
              /\ j < i
              /\ log[i].arg.config.cmdline = log[j].arg.resp.data.msr.cmdline
              /\ log[i].arg.config.tdhob = log[j].arg.resp.data.msr.tdhob

C19_Witness ==
    /\ Submitted("sev_guest_pre_attestation")
    /\ is_some(args.boot_args.firmware_path)
    /\ is_some(args.boot_args.initrd_path)

====
